---- MODULE Spec2Model ----
(***************************************************************************)
(* A model of the discrete hidden Markov model of hmmidunnomaybe.py: the   *)
(* HMM object (its attribute dictionary, the pi/A/B properties and their   *)
(* lazily computed logs), the constructor, the forward, backward and       *)
(* Viterbi passes, the sampler and the EM loop.                            *)
(*                                                                         *)
(* Numbers.  A float is modelled by an exact extended rational <<n, d>>:   *)
(* n/d in lowest terms with d > 0, or <<1, 0>> (+inf), <<-1, 0>> (-inf),   *)
(* <<0, 0>> (nan).  Arithmetic is exact, so "equal within tolerance" in    *)
(* the program is equality here.  A float that lives in log space is the   *)
(* record [exp |-> p]: the float whose exponential is p (so -inf is        *)
(* [exp |-> 0] and log-space addition multiplies the exponentials).        *)
(*                                                                         *)
(* Arrays are functions on 0..n-1, as the program indexes them.            *)
(***************************************************************************)
EXTENDS Integers, Sequences, FiniteSets, TLC

VARIABLES hmm, pc, frame, ret, numba_rng, ghost

vars == <<hmm, pc, frame, ret, numba_rng, ghost>>

(***************************************************************************)
(* Extended rational arithmetic (IEEE double, without rounding).           *)
(***************************************************************************)
Abs(n) == IF n < 0 THEN -n ELSE n

Sgn(n) == IF n < 0 THEN -1 ELSE IF n > 0 THEN 1 ELSE 0

RECURSIVE GCD(_, _)
GCD(a, b) == IF b = 0 THEN a ELSE GCD(b, a % b)

\* n/d in lowest terms; d = 0 gives +inf, -inf or nan by the sign of n.
Norm(n, d) ==
    IF d = 0 THEN <<Sgn(n), 0>>
    ELSE LET s == IF d < 0 THEN -1 ELSE 1
             g == GCD(Abs(n), Abs(d))
         IN  <<(s * n) \div g, (s * d) \div g>>

Zero == <<0, 1>>

One == <<1, 1>>

NaN == <<0, 0>>

IsNaN(x) == x = NaN

IsFinite(x) == x[2] # 0

Mul(x, y) ==
    IF ~IsFinite(x) \/ ~IsFinite(y) THEN <<Sgn(x[1]) * Sgn(y[1]), 0>>
    ELSE LET g1 == GCD(Abs(x[1]), y[2])
             g2 == GCD(Abs(y[1]), x[2])
         IN  <<(x[1] \div g1) * (y[1] \div g2), (x[2] \div g2) * (y[2] \div g1)>>

Div(x, y) ==
    IF IsNaN(x) \/ IsNaN(y) THEN NaN
    ELSE IF ~IsFinite(y) THEN (IF IsFinite(x) THEN Zero ELSE NaN)
    ELSE IF y[1] = 0 THEN <<Sgn(x[1]), 0>>
    ELSE Mul(x, <<Sgn(y[1]) * y[2], Abs(y[1])>>)

Add(x, y) ==
    IF IsNaN(x) \/ IsNaN(y) THEN NaN
    ELSE IF ~IsFinite(x) THEN (IF IsFinite(y) \/ x = y THEN x ELSE NaN)
    ELSE IF ~IsFinite(y) THEN y
    ELSE LET g == GCD(x[2], y[2])
         IN  Norm(x[1] * (y[2] \div g) + y[1] * (x[2] \div g), (x[2] \div g) * y[2])

\* x < y as floats compare: false when either side is nan.
Less(x, y) ==
    IF IsNaN(x) \/ IsNaN(y) THEN FALSE
    ELSE IF ~IsFinite(x) \/ ~IsFinite(y)
         THEN (IF IsFinite(x) THEN 0 ELSE x[1]) < (IF IsFinite(y) THEN 0 ELSE y[1])
    ELSE Add(x, <<-y[1], y[2]>>)[1] < 0

(***************************************************************************)
(* Arrays: functions on 0..n-1.                                            *)
(***************************************************************************)
\* The array a function expression denotes, tabulated: TLC then evaluates each
\* entry once instead of at every use.
Tab(f) == f @@ f

Size(a) == Cardinality(DOMAIN a)

RECURSIVE SumUpTo(_, _)
SumUpTo(v, n) == IF n = 0 THEN Zero ELSE Add(SumUpTo(v, n - 1), v[n - 1])

\* ndarray.sum() of a vector.
Sum(v) == SumUpTo(v, Size(v))

Column(m, c) == Tab([r \in DOMAIN m |-> m[r][c]])

VAdd(u, v) == Tab([i \in DOMAIN u |-> Add(u[i], v[i])])

MAdd(m, n) == Tab([i \in DOMAIN m |-> VAdd(m[i], n[i])])

\* np.max of a vector of floats: nan when an entry is nan.
MaxOf(v) ==
    IF \E i \in DOMAIN v : IsNaN(v[i]) THEN NaN
    ELSE v[CHOOSE i \in DOMAIN v : \A j \in DOMAIN v : ~Less(v[i], v[j])]

\* np.argmax: the first index of the maximum; the first nan when there is one.
ArgMaxNum(v) ==
    IF \E i \in DOMAIN v : IsNaN(v[i])
    THEN CHOOSE i \in DOMAIN v : IsNaN(v[i]) /\ \A j \in DOMAIN v : j < i => ~IsNaN(v[j])
    ELSE CHOOSE i \in DOMAIN v :
             /\ \A j \in DOMAIN v : ~Less(v[i], v[j])
             /\ \A j \in DOMAIN v : j < i => Less(v[j], v[i])

(***************************************************************************)
(* Log space.                                                              *)
(***************************************************************************)
\* The float x with e^x = p.
Ln(p) == [exp |-> p]

NegInf == Ln(Zero)

\* np.log of one float: nan for a negative number or nan, -inf for 0.
Log(p) == IF IsNaN(p) \/ p[1] < 0 THEN Ln(NaN) ELSE Ln(p)

\* np.exp of one float.
Exp(x) == x.exp

\* x + y and x - y of two floats of log space.
LAdd(x, y) == Ln(Mul(x.exp, y.exp))

LSub(x, y) == Ln(Div(x.exp, y.exp))

LogVec(v) == Tab([i \in DOMAIN v |-> Log(v[i])])

LogMat(m) == Tab([i \in DOMAIN m |-> LogVec(m[i])])

LVAdd(u, v) == Tab([i \in DOMAIN u |-> LAdd(u[i], v[i])])

ExpVec(v) == Tab([i \in DOMAIN v |-> Exp(v[i])])

\* A log-space float is finite when it is none of -inf, +inf, nan.
LIsFinite(x) == IsFinite(x.exp) /\ x.exp # Zero

\* _utils._logsumexp: log(sum(exp(a))) by max-subtraction, m + log(sum(exp(a - m))),
\* and -inf when every entry is -inf.
utils_logsumexp_max(a, m) ==
    IF IsNaN(Exp(m)) THEN Ln(NaN)
    ELSE IF m = NegInf THEN NegInf
    ELSE LAdd(m, Log(Sum(Tab([i \in DOMAIN a |-> Exp(LSub(a[i], m))]))))

utils_logsumexp(a) == utils_logsumexp_max(a, Ln(MaxOf(ExpVec(a))))

\* scipy.special.logsumexp: the maximum is subtracted when it is finite, 0 otherwise.
logsumexp_shifted(a, a_max) ==
    LAdd(Log(Sum(Tab([i \in DOMAIN a |-> Exp(LSub(a[i], a_max))]))), a_max)

FiniteOrZero(x) == IF LIsFinite(x) THEN x ELSE Log(One)

logsumexp(a) == logsumexp_shifted(a, FiniteOrZero(Ln(MaxOf(ExpVec(a)))))

\* np.argmax of a vector of log-space floats.
ArgMax(a) == ArgMaxNum(ExpVec(a))

(***************************************************************************)
(* The dynamic programs.  A lattice is indexed [state][t], as in the code. *)
(***************************************************************************)
States(log_pi) == DOMAIN log_pi

\* Column t of log_alpha, from column t - 1.
RECURSIVE ForwardColumn(_, _, _, _, _)
ForwardColumn(seq, log_pi, log_A, log_B, t) ==
    IF t = 0 THEN LVAdd(log_pi, Column(log_B, seq[0]))
    ELSE LET prev == ForwardColumn(seq, log_pi, log_A, log_B, t - 1)
         IN  Tab([s \in States(log_pi) |->
                 LAdd(utils_logsumexp(LVAdd(prev, Column(log_A, s))), log_B[s][seq[t]])])

\* The lattice [state][t] of the columns cols[t][state].
Lattice(cols) == Tab([s \in DOMAIN cols[0] |-> Tab([t \in DOMAIN cols |-> cols[t][s]])])

ForwardResult(cols) ==
    [log_alpha |-> Lattice(cols), value |-> utils_logsumexp(cols[Size(cols) - 1])]

\* _forward: the filled log_alpha and the returned log-likelihood.
Forward(seq, log_pi, log_A, log_B) ==
    ForwardResult(Tab([t \in DOMAIN seq |-> ForwardColumn(seq, log_pi, log_A, log_B, t)]))

\* BackwardColumn reading the symbol seq[t] where the code reads seq[t + 1].
RECURSIVE BackwardColumnSameSymbol(_, _, _, _, _)
BackwardColumnSameSymbol(seq, log_pi, log_A, log_B, t) ==
    IF t = Size(seq) - 1 THEN [s \in States(log_pi) |-> Log(One)]
    ELSE LET next == BackwardColumnSameSymbol(seq, log_pi, log_A, log_B, t + 1)
         IN  Tab([s \in States(log_pi) |->
                 utils_logsumexp(LVAdd(LVAdd(log_A[s], Column(log_B, seq[t])), next))])

\* Column t of log_beta, from column t + 1.
RECURSIVE BackwardColumn(_, _, _, _, _)
BackwardColumn(seq, log_pi, log_A, log_B, t) ==
    IF t = Size(seq) - 1 THEN [s \in States(log_pi) |-> Log(One)]
    ELSE LET next == BackwardColumn(seq, log_pi, log_A, log_B, t + 1)
         IN  Tab([s \in States(log_pi) |->
                 utils_logsumexp(LVAdd(LVAdd(log_A[s], Column(log_B, seq[t + 1])), next))])

\* _backward: the filled log_beta.
Backward(seq, log_pi, log_A, log_B) ==
    Lattice(Tab([t \in DOMAIN seq |-> BackwardColumn(seq, log_pi, log_A, log_B, t)]))

\* Column t of the Viterbi pass: log_V[:, t] and back_path[:, t].  Column 0 of
\* back_path is never written: it keeps what the buffer held (old).
RECURSIVE ViterbiColumn(_, _, _, _, _, _)
ViterbiColumn(seq, log_pi, log_A, log_B, old, t) ==
    IF t = 0
    THEN [log_V |-> LVAdd(log_pi, Column(log_B, seq[0])),
          back  |-> [s \in States(log_pi) |-> old[s][0]]]
    ELSE LET prev == ViterbiColumn(seq, log_pi, log_A, log_B, old, t - 1).log_V
             work_buffer(s) == LVAdd(prev, Column(log_A, s))
             best_prev(s)   == ArgMax(work_buffer(s))
         IN  [log_V |-> Tab([s \in States(log_pi) |->
                            LAdd(work_buffer(s)[best_prev(s)], log_B[s][seq[t]])]),
              back  |-> Tab([s \in States(log_pi) |-> best_prev(s)])]

\* _viterbi: the filled log_V and back_path (old is back_path as passed in).
ViterbiResult(cols) ==
    [log_V     |-> Lattice(Tab([t \in DOMAIN cols |-> cols[t].log_V])),
     back_path |-> Lattice(Tab([t \in DOMAIN cols |-> cols[t].back]))]

Viterbi(seq, log_pi, log_A, log_B, old) ==
    ViterbiResult(Tab([t \in DOMAIN seq |->
                          ViterbiColumn(seq, log_pi, log_A, log_B, old, t)]))

\* The state _get_best_path writes to best_path[t].
RECURSIVE BestState(_, _, _)
BestState(log_V, back_path, t) ==
    LET last == Size(log_V[0]) - 1
    IN  IF t = last THEN ArgMax(Column(log_V, last))
        ELSE back_path[BestState(log_V, back_path, t + 1)][t + 1]

\* _get_best_path taking the best state of every column of log_V instead of
\* following the back links.
GetBestPathNoBacktrack(log_V, back_path) ==
    [t \in DOMAIN log_V[0] |-> ArgMax(Column(log_V, t))]

\* _get_best_path: best_path.  The last read, back_path[s, 0], is of a cell
\* that was never written; its value goes to the local s and is not used.
GetBestPath(log_V, back_path) ==
    [t \in DOMAIN log_V[0] |-> BestState(log_V, back_path, t)]

(***************************************************************************)
(* The HMM object: its attribute dictionary.  An attribute that was never  *)
(* assigned is not in the record's domain.                                 *)
(***************************************************************************)
HasAttr(obj, name) == name \in DOMAIN obj

GetAttr(obj, name, default) == IF HasAttr(obj, name) THEN obj[name] ELSE default

SetAttr(obj, name, value) == (name :> value) @@ obj

\* The pi, A and B properties.
Pi(obj) == obj.init_probas

SetPi(obj, value) ==
    SetAttr(SetAttr(obj, "init_probas", value), "_recompute_log_pi", TRUE)

A(obj) == obj.transitions

\* The A setter marking the log of pi, not the log of A, for recomputation.
SetAMarksLogPi(obj, value) ==
    SetAttr(SetAttr(obj, "transitions", value), "_recompute_log_pi", TRUE)

SetA(obj, value) ==
    SetAttr(SetAttr(obj, "transitions", value), "_recompute_log_A", TRUE)

B(obj) == obj.emissions

SetB(obj, value) ==
    SetAttr(SetAttr(obj, "emissions", value), "_recompute_log_B", TRUE)

\* What a read of a derived log gives: the object after the read, the value
\* read, and whether the read computed np.log.
Cached(obj, cache, computed) ==
    [obj |-> obj, value |-> obj[cache], computed |-> computed]

\* The body the three log properties share:
\*   if <recompute>: self.<cache> = <fresh>
\*   return self.<cache>
LogRead(obj, recompute, cache, fresh) ==
    Cached(IF recompute THEN SetAttr(obj, cache, fresh) ELSE obj, cache, recompute)

\* The _log_pi, _log_A and _log_B properties.
LogPi(obj) ==
    LogRead(obj, GetAttr(obj, "_recompute_log_pi", TRUE), "__log_pi", LogVec(Pi(obj)))

LogA(obj) ==
    LogRead(obj, GetAttr(obj, "_recompute_log_A", TRUE), "__log_A", LogMat(A(obj)))

LogB(obj) ==
    LogRead(obj, GetAttr(obj, "_recompute_log_B", TRUE), "__log_B", LogMat(B(obj)))

\* _utils._check_array_sums_to_1: whether the check passes.
check_array_sums_to_1(a) == Sum(a) = One

\* HMM._check_matrices_conditioning: whether every check passes.
check_matrices_conditioning(obj) ==
    /\ check_array_sums_to_1(Pi(obj))
    /\ \A s \in 0..(obj.n_hidden_states - 1) :
           check_array_sums_to_1(A(obj)[s]) /\ check_array_sums_to_1(B(obj)[s])

\* Whether A.shape[0] == A.shape[1] == pi.shape[0] == B.shape[0].
ShapesAgree(obj) ==
    /\ Size(A(obj)) = Size(A(obj)[0])
    /\ Size(A(obj)[0]) = Size(Pi(obj))
    /\ Size(Pi(obj)) = Size(B(obj))

\* HMM.__init__: the object, or the ValueError raised.
Construct(init_probas, transitions, emissions, n_iter) ==
    LET obj == [init_probas         |-> init_probas,
                transitions         |-> transitions,
                emissions           |-> emissions,
                n_iter              |-> n_iter,
                n_hidden_states     |-> Size(transitions),
                n_observable_states |-> Size(emissions[0])]
    IN  IF ~ShapesAgree(obj) THEN [raised |-> TRUE, obj |-> obj]
        ELSE IF ~check_matrices_conditioning(obj) THEN [raised |-> TRUE, obj |-> obj]
        ELSE [raised |-> FALSE, obj |-> obj]

\* HMM._forward, HMM._backward, HMM._viterbi: the three log tables are read
\* through their properties, then the pass runs.
\* (p, a and b are the reads of _log_pi, _log_A and _log_B, in that order.)
LogsRead(p, a, b) ==
    [obj |-> b.obj, log_pi |-> p.value, log_A |-> a.value, log_B |-> b.value]

ReadLogsAfterA(p, a) == LogsRead(p, a, LogB(a.obj))

ReadLogsAfterPi(p) == ReadLogsAfterA(p, LogA(p.obj))

ReadLogs(obj) == ReadLogsAfterPi(LogPi(obj))

ForwardFilled(obj, f) == [obj |-> obj, log_alpha |-> f.log_alpha, value |-> f.value]

ForwardWith(r, seq) == ForwardFilled(r.obj, Forward(seq, r.log_pi, r.log_A, r.log_B))

HmmForward(obj, seq) == ForwardWith(ReadLogs(obj), seq)

BackwardWith(r, seq) ==
    [obj |-> r.obj, log_beta |-> Backward(seq, r.log_pi, r.log_A, r.log_B)]

HmmBackward(obj, seq) == BackwardWith(ReadLogs(obj), seq)

ViterbiFilled(obj, v) == [obj |-> obj, log_V |-> v.log_V, back_path |-> v.back_path]

ViterbiWith(r, seq, old) ==
    ViterbiFilled(r.obj, Viterbi(seq, r.log_pi, r.log_A, r.log_B, old))

HmmViterbi(obj, seq, old) == ViterbiWith(ReadLogs(obj), seq, old)

\* HMM.log_likelihood: the object and the total after the first n sequences.
LogLikelihoodAdd(before, f) == [obj |-> f.obj, value |-> LAdd(before.value, f.value)]

LogLikelihoodOne(before, seq) == LogLikelihoodAdd(before, HmmForward(before.obj, seq))

RECURSIVE LogLikelihoodUpTo(_, _, _)
LogLikelihoodUpTo(obj, sequences, n) ==
    IF n = 0 THEN [obj |-> obj, value |-> Log(One)]
    ELSE LogLikelihoodOne(LogLikelihoodUpTo(obj, sequences, n - 1), sequences[n - 1])

LogLikelihood(obj, sequences) == LogLikelihoodUpTo(obj, sequences, Size(sequences))

(***************************************************************************)
(* Inputs.                                                                 *)
(***************************************************************************)
\* The longest sequence of the forward, backward and Viterbi checks.
MaxT == 3

\* The array of a tuple.
Arr(tuple) == [i \in 0..(Len(tuple) - 1) |-> tuple[i + 1]]

Q(n, d) == Norm(n, d)

\* toy_params of the tests: 2 hidden states, 3 observable states.
ToyModel ==
    [pi |-> Arr(<<Q(3, 5), Q(2, 5)>>),
     A  |-> Arr(<<Arr(<<Q(7, 10), Q(3, 10)>>), Arr(<<Q(2, 5), Q(3, 5)>>)>>),
     B  |-> Arr(<<Arr(<<Q(1, 10), Q(2, 5), Q(1, 2)>>),
                  Arr(<<Q(3, 5), Q(3, 10), Q(1, 10)>>)>>)]

\* A model of 3 hidden states and 2 symbols, with a tie and a forbidden move.
ThreeStateModel ==
    [pi |-> Arr(<<Q(1, 2), Q(1, 4), Q(1, 4)>>),
     A  |-> Arr(<<Arr(<<Q(1, 2), Q(1, 2), Zero>>),
                  Arr(<<Q(1, 4), Q(1, 4), Q(1, 2)>>),
                  Arr(<<Q(1, 3), Q(1, 3), Q(1, 3)>>)>>),
     B  |-> Arr(<<Arr(<<Q(1, 2), Q(1, 2)>>),
                  Arr(<<Q(1, 4), Q(3, 4)>>),
                  Arr(<<One, Zero>>)>>)]

\* The distributions over two outcomes with entries in {0, 1/2, 1}.
Rows2 == {Arr(<<One, Zero>>), Arr(<<Q(1, 2), Q(1, 2)>>), Arr(<<Zero, One>>)}

\* Every model of 2 hidden states and 2 symbols whose rows are in Rows2.
GridModels == [pi : Rows2, A : [0..1 -> Rows2], B : [0..1 -> Rows2]]

ValidModels == GridModels \cup {ToyModel, ThreeStateModel}

\* The sequences of length 1..n over the symbols of model m.
SeqsOver(m, n) == UNION {[0..(T - 1) -> 0..(Size(m.B[0]) - 1)] : T \in 1..n}

\* The object HMM(pi, A, B) of a model, n_iter at its default.
DefaultNIter == 10

HmmOf(m) == Construct(m.pi, m.A, m.B, DefaultNIter).obj

Idle == [op |-> "none"]

(***************************************************************************)
(* SpecFB: test_likelihood_alpha_beta on every valid model and sequence.   *)
(*   expected = hmm.log_likelihood([seq]); hmm._forward(seq, log_alpha);   *)
(*   hmm._backward(seq, log_beta)                                          *)
(***************************************************************************)
InitFB ==
    /\ \E m \in ValidModels : \E seq \in SeqsOver(m, MaxT) :
           /\ hmm = HmmOf(m)
           /\ frame = [op |-> "alpha_beta", seq |-> seq]
    /\ pc = "log_likelihood"
    /\ ret = <<>>
    /\ numba_rng = 0
    /\ ghost = <<>>

FBExpected(r) ==
    /\ hmm' = r.obj
    /\ frame' = [op |-> "alpha_beta", seq |-> frame.seq, expected |-> r.value]

FBForwardDone(r) ==
    /\ hmm' = r.obj
    /\ frame' = [op |-> "alpha_beta", seq |-> frame.seq, expected |-> frame.expected,
                 log_alpha |-> r.log_alpha]

FBBackwardDone(r) ==
    /\ hmm' = r.obj
    /\ frame' = [op |-> "alpha_beta", seq |-> frame.seq, expected |-> frame.expected,
                 log_alpha |-> frame.log_alpha, log_beta |-> r.log_beta]

FBLogLikelihood ==
    /\ pc = "log_likelihood"
    /\ FBExpected(LogLikelihood(hmm, Arr(<<frame.seq>>)))
    /\ pc' = "forward"
    /\ UNCHANGED <<ret, numba_rng, ghost>>

FBForward ==
    /\ pc = "forward"
    /\ FBForwardDone(HmmForward(hmm, frame.seq))
    /\ pc' = "backward"
    /\ UNCHANGED <<ret, numba_rng, ghost>>

FBBackward ==
    /\ pc = "backward"
    /\ FBBackwardDone(HmmBackward(hmm, frame.seq))
    /\ pc' = "done"
    /\ UNCHANGED <<ret, numba_rng, ghost>>

NextFB == FBLogLikelihood \/ FBForward \/ FBBackward

SpecFB == InitFB /\ [][NextFB]_vars

\* C3: once forward and backward have run on a sequence, logsumexp over the
\* states s of log_alpha[s, t] + log_beta[s, t] is, at every t, the
\* log-likelihood that log_likelihood (the forward pass alone) returned.
C3_AlphaBetaLikelihood ==
    (pc = "done" /\ frame.op = "alpha_beta") =>
        \A t \in DOMAIN frame.seq :
            logsumexp(LVAdd(Column(frame.log_alpha, t), Column(frame.log_beta, t)))
                = frame.expected

\* A sequence of length >= 3 that the model can emit, but not with certainty,
\* has gone through both passes.
C3_Witness ==
    /\ pc = "done" /\ frame.op = "alpha_beta"
    /\ Size(frame.seq) >= 3
    /\ frame.expected \notin {NegInf, Log(One)}

(***************************************************************************)
(* HMM.decode.                                                             *)
(***************************************************************************)
\* The loop of decode over the first n sequences: the paths appended to out, the
\* object, and back_path as the last pass left it.  junk is what np.empty left
\* in back_path.
DecodeAppend(before, v) ==
    [obj |-> v.obj, back_path |-> v.back_path,
     out |-> Append(before.out, GetBestPath(v.log_V, v.back_path))]

DecodeOne(before, seq) ==
    DecodeAppend(before, HmmViterbi(before.obj, seq, before.back_path))

RECURSIVE DecodeUpTo(_, _, _, _)
DecodeUpTo(obj, sequences, junk, n) ==
    IF n = 0 THEN [obj |-> obj, back_path |-> junk, out |-> <<>>]
    ELSE DecodeOne(DecodeUpTo(obj, sequences, junk, n - 1), sequences[n - 1])

Decoded(r) == [obj |-> r.obj, value |-> Arr(r.out)]

Decode(obj, sequences, junk) ==
    Decoded(DecodeUpTo(obj, sequences, junk, Size(sequences)))

\* What a buffer of np.empty may hold: the same arbitrary integer in every cell.
JunkBuffers(n_states, n_obs) ==
    {[s \in 0..(n_states - 1) |-> [t \in 0..(n_obs - 1) |-> j]] : j \in {-1, 0, 5}}

(***************************************************************************)
(* SpecViterbi: decode on every valid model and sequence, and on corpora   *)
(* of several sequences.                                                   *)
(***************************************************************************)
\* The most sequences in a corpus.
MaxSeqs == 2

\* The corpora of n sequences of length T over the symbols of model m.
CorporaOf(m, n, T) == [0..(n - 1) -> [0..(T - 1) -> 0..(Size(m.B[0]) - 1)]]

DecodeInputs ==
    UNION {{[m |-> m, corpus |-> c] : c \in UNION {CorporaOf(m, 1, T) : T \in 1..MaxT}} :
              m \in ValidModels}
    \cup
    {[m |-> ThreeStateModel, corpus |-> c] :
        c \in UNION {CorporaOf(ThreeStateModel, n, T) : n \in 2..MaxSeqs, T \in 1..MaxT}}

InitViterbi ==
    /\ \E input \in DecodeInputs :
           /\ hmm = HmmOf(input.m)
           /\ frame = [op |-> "decode", sequences |-> input.corpus]
    /\ pc = "call"
    /\ ret = <<>>
    /\ numba_rng = 0
    /\ ghost = <<>>

\* A method returns r.value and leaves the object as r.obj.
Returns(r) == hmm' = r.obj /\ ret' = r.value

DecodeCall ==
    /\ pc = "call" /\ frame.op = "decode"
    /\ \E junk \in JunkBuffers(hmm.n_hidden_states, Size(frame.sequences[0])) :
           Returns(Decode(hmm, frame.sequences, junk))
    /\ pc' = "done"
    /\ UNCHANGED <<frame, numba_rng, ghost>>

NextViterbi == DecodeCall

SpecViterbi == InitViterbi /\ [][NextViterbi]_vars

\* The joint probability of a state path and a sequence:
\* pi[p0] * B[p0, o0] * prod_t A[p(t-1), p(t)] * B[p(t), o(t)].
RECURSIVE JointUpTo(_, _, _, _)
JointUpTo(obj, seq, path, t) ==
    IF t = 0 THEN Mul(Pi(obj)[path[0]], B(obj)[path[0]][seq[0]])
    ELSE Mul(JointUpTo(obj, seq, path, t - 1),
             Mul(A(obj)[path[t - 1]][path[t]], B(obj)[path[t]][seq[t]]))

Joint(obj, seq, path) == JointUpTo(obj, seq, path, Size(seq) - 1)

AllPaths(obj, seq) == [DOMAIN seq -> 0..(obj.n_hidden_states - 1)]

\* C4: the path decode returns for a sequence is a path of state indices in
\* [0, S) whose joint probability with the sequence is the maximum over all S^T
\* state paths.
C4_ViterbiIsBruteForceArgmax ==
    (pc = "done" /\ frame.op = "decode") =>
        \A i \in DOMAIN frame.sequences :
            /\ ret[i] \in AllPaths(hmm, frame.sequences[i])
            /\ \A q \in AllPaths(hmm, frame.sequences[i]) :
                   ~Less(Joint(hmm, frame.sequences[i], ret[i]),
                         Joint(hmm, frame.sequences[i], q))

\* decode has returned, for a corpus of two sequences of length >= 3, a second
\* path that changes state and that some other path does not match in
\* probability.
C4_Witness ==
    /\ pc = "done" /\ frame.op = "decode"
    /\ Size(frame.sequences) >= 2
    /\ Size(frame.sequences[1]) >= 3
    /\ ret[1][0] # ret[1][1]
    /\ \E q \in AllPaths(hmm, frame.sequences[1]) :
           Less(Joint(hmm, frame.sequences[1], q), Joint(hmm, frame.sequences[1], ret[1]))

(***************************************************************************)
(* SpecCtor: HMM(init_probas, transitions, emissions, n_iter) on well and  *)
(* ill formed arguments.                                                   *)
(***************************************************************************)
PiArgs ==
    {Arr(<<Q(3, 5), Q(2, 5)>>),              \* a distribution
     Arr(<<One, Zero>>),                     \* a distribution with a zero
     Arr(<<Q(1, 2), Q(1, 4)>>),              \* sums to 3/4
     Arr(<<Q(3, 2), Q(-1, 2)>>),             \* sums to 1, one entry negative
     Arr(<<Q(1, 2), Q(1, 4), Q(1, 4)>>)}     \* three states

AArgs ==
    {Arr(<<Arr(<<Q(7, 10), Q(3, 10)>>), Arr(<<Q(2, 5), Q(3, 5)>>)>>),
     Arr(<<Arr(<<Q(1, 2), Q(1, 2)>>), Arr(<<Q(1, 2), Q(3, 4)>>)>>),
     Arr(<<Arr(<<Q(5, 4), Q(-1, 4)>>), Arr(<<Q(1, 2), Q(1, 2)>>)>>),
     Arr(<<Arr(<<Q(1, 2), Q(1, 4), Q(1, 4)>>), Arr(<<Q(1, 2), Q(1, 4), Q(1, 4)>>)>>),
     ThreeStateModel.A}

BArgs ==
    {ToyModel.B,
     Arr(<<Arr(<<One, Zero>>), Arr(<<Q(1, 2), Q(1, 2)>>)>>),
     Arr(<<Arr(<<Q(1, 2), Q(1, 2)>>), Arr(<<Q(1, 4), Q(1, 4)>>)>>),
     Arr(<<Arr(<<Q(1, 2), Q(1, 2)>>), Arr(<<Q(-1, 2), Q(3, 2)>>)>>),
     ThreeStateModel.B}

\* The largest n_iter given to the constructor or to EM.
MaxIter == 2

NoObject == <<>>

InitCtor ==
    /\ hmm = NoObject
    /\ \E init_probas \in PiArgs, transitions \in AArgs, emissions \in BArgs,
          n_iter \in 1..MaxIter :
           frame = [op |-> "__init__", init_probas |-> init_probas,
                    transitions |-> transitions, emissions |-> emissions,
                    n_iter |-> n_iter]
    /\ pc = "call"
    /\ ret = <<>>
    /\ numba_rng = 0
    /\ ghost = <<>>

Constructed(r) == ~r.raised /\ hmm' = r.obj /\ ret' = "object"

\* The constructor returns the object.
CtorReturn ==
    /\ pc = "call" /\ frame.op = "__init__"
    /\ Constructed(Construct(frame.init_probas, frame.transitions, frame.emissions,
                             frame.n_iter))
    /\ pc' = "done"
    /\ UNCHANGED <<frame, numba_rng, ghost>>

\* The constructor raises: the caller gets no object.
CtorRaise ==
    /\ pc = "call" /\ frame.op = "__init__"
    /\ Construct(frame.init_probas, frame.transitions, frame.emissions,
                 frame.n_iter).raised
    /\ ret' = "ValueError"
    /\ pc' = "done"
    /\ UNCHANGED <<hmm, frame, numba_rng, ghost>>

NextCtor == CtorReturn \/ CtorRaise

SpecCtor == InitCtor /\ [][NextCtor]_vars

\* A valid probability distribution: no negative entry, and the entries sum to 1.
IsDistribution(row) ==
    /\ \A i \in DOMAIN row : ~Less(row[i], Zero)
    /\ Sum(row) = One

\* S = len(pi) = rows(A) = cols(A) = rows(B).
ShapeInvariant(init_probas, transitions, emissions) ==
    /\ Size(init_probas) = Size(transitions)
    /\ \A s \in DOMAIN transitions : Size(transitions[s]) = Size(init_probas)
    /\ Size(emissions) = Size(init_probas)

DistributionInvariant(init_probas, transitions, emissions) ==
    /\ IsDistribution(init_probas)
    /\ \A s \in DOMAIN transitions : IsDistribution(transitions[s])
    /\ \A s \in DOMAIN emissions : IsDistribution(emissions[s])

\* C6: construction raises whenever the shapes are inconsistent or a row of
\* pi, A or B is not a valid distribution (a negative entry, or a sum other
\* than 1), so every object it returns has consistent shapes and valid rows.
C6_InvalidArgumentsRaise ==
    (pc = "done" /\ frame.op = "__init__") =>
        (ret = "ValueError" <=>
            ~(/\ ShapeInvariant(frame.init_probas, frame.transitions, frame.emissions)
              /\ DistributionInvariant(frame.init_probas, frame.transitions,
                                       frame.emissions)))

(***************************************************************************)
(* SpecCache: the pi, A and B setters and the _log_pi, _log_A and _log_B   *)
(* properties, called in any order on a constructed object.                *)
(***************************************************************************)
\* The tables written through the setters.
PiValues == Rows2

AValues == {ToyModel.A, Arr(<<Arr(<<One, Zero>>), Arr(<<Q(1, 2), Q(1, 2)>>)>>)}

BValues == {Arr(<<Arr(<<Q(1, 2), Q(1, 2)>>), Arr(<<Zero, One>>)>>),
            Arr(<<Arr(<<Q(1, 4), Q(3, 4)>>), Arr(<<One, Zero>>)>>)}

InitCache ==
    /\ \E init_probas \in PiValues, transitions \in AValues, emissions \in BValues :
           hmm = Construct(init_probas, transitions, emissions, DefaultNIter).obj
    /\ pc = "idle"
    /\ frame = Idle
    /\ ret = <<>>
    /\ numba_rng = 0
    /\ ghost = [prev |-> "none"]

\* hmm.pi = value
WritePi ==
    /\ pc = "idle"
    /\ \E value \in PiValues : hmm' = SetPi(hmm, value)
    /\ frame' = [op |-> "set_pi"]
    /\ ghost' = [prev |-> frame.op]
    /\ UNCHANGED <<pc, ret, numba_rng>>

\* hmm.A = value
WriteA ==
    /\ pc = "idle"
    /\ \E value \in AValues : hmm' = SetA(hmm, value)
    /\ frame' = [op |-> "set_A"]
    /\ ghost' = [prev |-> frame.op]
    /\ UNCHANGED <<pc, ret, numba_rng>>

\* hmm.B = value
WriteB ==
    /\ pc = "idle"
    /\ \E value \in BValues : hmm' = SetB(hmm, value)
    /\ frame' = [op |-> "set_B"]
    /\ ghost' = [prev |-> frame.op]
    /\ UNCHANGED <<pc, ret, numba_rng>>

\* The three assignments that end an EM iteration, with any new tables.
WriteAll ==
    /\ pc = "idle"
    /\ \E init_probas \in PiValues, transitions \in AValues, emissions \in BValues :
           hmm' = SetB(SetA(SetPi(hmm, init_probas), transitions), emissions)
    /\ frame' = [op |-> "m_step"]
    /\ ghost' = [prev |-> frame.op]
    /\ UNCHANGED <<pc, ret, numba_rng>>

LogReturns(r, op) ==
    /\ hmm' = r.obj
    /\ ret' = r.value
    /\ frame' = [op |-> op, computed |-> r.computed]

\* hmm._log_pi
ReadLogPi ==
    /\ pc = "idle"
    /\ LogReturns(LogPi(hmm), "get_log_pi")
    /\ ghost' = [prev |-> frame.op]
    /\ UNCHANGED <<pc, numba_rng>>

\* hmm._log_A
ReadLogA ==
    /\ pc = "idle"
    /\ LogReturns(LogA(hmm), "get_log_A")
    /\ ghost' = [prev |-> frame.op]
    /\ UNCHANGED <<pc, numba_rng>>

\* hmm._log_B
ReadLogB ==
    /\ pc = "idle"
    /\ LogReturns(LogB(hmm), "get_log_B")
    /\ ghost' = [prev |-> frame.op]
    /\ UNCHANGED <<pc, numba_rng>>

NextCache ==
    WritePi \/ WriteA \/ WriteB \/ WriteAll \/ ReadLogPi \/ ReadLogA \/ ReadLogB

SpecCache == InitCache /\ [][NextCache]_vars

\* The recompute flag of a table, as far as a program can tell: not set, or its value.
Mark(obj, flag) == IF HasAttr(obj, flag) THEN <<obj[flag]>> ELSE <<>>

\* A read of a derived log returns the log of the table as it is now.
ReadsAreFresh ==
    /\ frame.op = "get_log_pi" => ret = LogVec(Pi(hmm))
    /\ frame.op = "get_log_A" => ret = LogMat(A(hmm))
    /\ frame.op = "get_log_B" => ret = LogMat(B(hmm))

\* A write of one table leaves the marks of the other two as they were.
WriteMarksOwnLogOnly ==
    /\ frame'.op = "set_pi" =>
           /\ Mark(hmm', "_recompute_log_A") = Mark(hmm, "_recompute_log_A")
           /\ Mark(hmm', "_recompute_log_B") = Mark(hmm, "_recompute_log_B")
    /\ frame'.op = "set_A" =>
           /\ Mark(hmm', "_recompute_log_pi") = Mark(hmm, "_recompute_log_pi")
           /\ Mark(hmm', "_recompute_log_B") = Mark(hmm, "_recompute_log_B")
    /\ frame'.op = "set_B" =>
           /\ Mark(hmm', "_recompute_log_pi") = Mark(hmm, "_recompute_log_pi")
           /\ Mark(hmm', "_recompute_log_A") = Mark(hmm, "_recompute_log_A")

\* C7: every read of _log_pi, _log_A or _log_B returns the elementwise log of
\* the table's current value, never of an earlier one, and a write of one
\* table through its setter changes the stale mark of its own log only.
C7_LogsFreshAndOwnMarkOnly == []ReadsAreFresh /\ [][WriteMarksOwnLogOnly]_vars

\* _log_A has been read after A was replaced by a different table, when an
\* older log of A was cached.
C7_Witness ==
    /\ frame.op = "get_log_A"
    /\ ghost.prev = "set_A"
    /\ ret # LogMat(ToyModel.A)
    /\ HasAttr(hmm, "_recompute_log_A") /\ ~HasAttr(hmm, "_recompute_log_pi")

\* C9: a read of a derived log recomputes it only when its table was written
\* since the last recomputation: a read that directly follows a read of the
\* same log (so a recomputation, with no write since) does not recompute.
C9_SecondReadUsesCache ==
    /\ (frame.op = "get_log_pi" /\ ghost.prev = "get_log_pi") => ~frame.computed
    /\ (frame.op = "get_log_A" /\ ghost.prev = "get_log_A") => ~frame.computed
    /\ (frame.op = "get_log_B" /\ ghost.prev = "get_log_B") => ~frame.computed

(***************************************************************************)
(* Random numbers.  A generator (numpy's RandomState, numba's generator)   *)
(* is modelled by a 4-bit linear congruential generator: its state is a    *)
(* number in 0..15, seeding sets the state from the seed alone, and every  *)
(* draw steps the state and yields a number that depends on the new state  *)
(* alone.                                                                  *)
(***************************************************************************)
RngStates == 0..15

\* RandomState(seed), np.random.seed(seed): the state a seed gives.
RngSeed(seed) == (7 * seed + 3) % 16

RngStep(state) == (5 * state + 3) % 16

\* rng.randint(high): the state after the draw and the integer in [0, high).
RandInt(state, high) ==
    [state |-> RngStep(state), value |-> (RngStep(state) * high) \div 16]

\* np.random.rand(): the state after the draw and the float in [0, 1).
Rand(state) == [state |-> RngStep(state), value |-> Q(RngStep(state), 16)]

\* _utils._choice: the state after the draw and the index i drawn with
\* probability p[i]: the first i whose cumulative sum exceeds a uniform draw.
FirstOf(over, otherwise) ==
    IF over = {} THEN otherwise ELSE CHOOSE i \in over : \A j \in over : i <= j

choice_drawn(p, u) ==
    [state |-> u.state,
     value |-> FirstOf({i \in DOMAIN p : Less(u.value, SumUpTo(p, i + 1))}, Size(p))]

choice(p, state) == choice_drawn(p, Rand(state))

\* The loop of _sample_one after n rounds: the generator, the current hidden
\* state s and the observations so far.
Started(first) == [state |-> first.state, s |-> first.value, observations |-> <<>>]

Moved(before, obs, move) ==
    [state |-> move.state, s |-> move.value,
     observations |-> Append(before.observations, obs.value)]

Emitted(before, a, obs) == Moved(before, obs, choice(a[before.s], obs.state))

SampleRound(before, a, b) == Emitted(before, a, choice(b[before.s], before.state))

RECURSIVE SampleLoop(_, _, _, _, _)
SampleLoop(n, pi, a, b, start) ==
    IF n = 0 THEN Started(choice(pi, start))
    ELSE SampleRound(SampleLoop(n - 1, pi, a, b, start), a, b)

SampledOne(r) == [numba |-> r.state, observations |-> Arr(r.observations)]

\* _sample_one that does not seed numba's generator and draws from it as the
\* last call left it.
sample_one_unseeded(n_obs, pi, a, b, seed, numba) ==
    SampledOne(SampleLoop(n_obs, pi, a, b, numba))

\* _sample_one: the observations returned, and numba's generator (numba when
\* the call starts) as the call leaves it.
sample_one(n_obs, pi, a, b, seed, numba) ==
    SampledOne(SampleLoop(n_obs, pi, a, b, RngSeed(seed)))

\* The list comprehension of sample after n sequences: rng, numba's generator
\* and the sequences.
SampleAppend(before, sub, one) ==
    [rng |-> sub.state, numba |-> one.numba,
     sequences |-> Append(before.sequences, one.observations)]

SampleWithSeed(obj, n_obs, before, sub) ==
    SampleAppend(before, sub,
                 sample_one(n_obs, Pi(obj), A(obj), B(obj), sub.value, before.numba))

SampleNext(obj, n_obs, before) ==
    SampleWithSeed(obj, n_obs, before, RandInt(before.rng, 10000))

RECURSIVE SampleUpTo(_, _, _, _, _)
SampleUpTo(obj, n, n_obs, seed, numba) ==
    IF n = 0 THEN [rng |-> RngSeed(seed), numba |-> numba, sequences |-> <<>>]
    ELSE SampleNext(obj, n_obs, SampleUpTo(obj, n - 1, n_obs, seed, numba))

\* np.array of a list of equally long lists of integers.
NdArray2(rows) ==
    [shape |-> <<Len(rows), IF Len(rows) = 0 THEN 0 ELSE Size(rows[1])>>,
     data  |-> Arr(rows)]

\* HMM.sample: the array returned and numba's generator after the call.
Sampled(r) == [numba |-> r.numba, value |-> NdArray2(r.sequences)]

Sample(obj, n_seq, n_obs, seed, numba) ==
    Sampled(SampleUpTo(obj, n_seq, n_obs, seed, numba))


(***************************************************************************)
(* SpecSample: sample, log_likelihood and decode called in any order on    *)
(* one model.  The ghost remembers the first call of sample.               *)
(***************************************************************************)
\* The largest n_seq, n_obs and seed of a call of sample.
MaxCount == 2

MaxLen == 2

MaxSeed == 1

SampleModels == {ToyModel, ThreeStateModel}

\* The corpora given to log_likelihood and decode between the calls of sample.
BetweenCorpora == {Arr(<<Arr(<<1>>)>>), Arr(<<Arr(<<0, 1>>)>>), Arr(<<Arr(<<1, 0>>), Arr(<<1, 1>>)>>)}

InitSample ==
    /\ \E m \in SampleModels : hmm = HmmOf(m)
    /\ numba_rng \in RngStates
    /\ pc = "idle"
    /\ frame = Idle
    /\ ret = <<>>
    /\ ghost = [first |-> <<>>, between |-> {}]

SameCall(f, g) ==
    f.op = g.op /\ f.n_seq = g.n_seq /\ f.n_obs = g.n_obs /\ f.seed = g.seed

\* The ghost after a call: the first call of sample is kept with its result;
\* the kinds of the later calls that are not the same call are noted.
Remember(call, value) ==
    IF call.op = "sample" /\ ghost.first = <<>>
    THEN [first |-> <<[call |-> call, value |-> value]>>, between |-> {}]
    ELSE [first |-> ghost.first,
          between |-> IF ghost.first = <<>> THEN {}
                      ELSE IF call.op = "sample" /\ SameCall(call, ghost.first[1].call)
                           THEN ghost.between
                      ELSE ghost.between \cup {call.op}]

SampleReturns(r, call) ==
    /\ numba_rng' = r.numba
    /\ ret' = r.value
    /\ frame' = call
    /\ ghost' = Remember(call, r.value)

CallReturns(r, call) ==
    /\ hmm' = r.obj
    /\ ret' = r.value
    /\ frame' = call
    /\ ghost' = Remember(call, r.value)

\* hmm.sample(n_seq, n_obs, seed)
SampleCall ==
    /\ pc = "idle"
    /\ \E n_seq \in 1..MaxCount, n_obs \in 1..MaxLen, seed \in 0..MaxSeed :
           SampleReturns(Sample(hmm, n_seq, n_obs, seed, numba_rng),
                         [op |-> "sample", n_seq |-> n_seq, n_obs |-> n_obs,
                          seed |-> seed])
    /\ UNCHANGED <<hmm, pc>>

\* hmm.log_likelihood(sequences)
LogLikelihoodCall ==
    /\ pc = "idle"
    /\ \E sequences \in BetweenCorpora :
           CallReturns(LogLikelihood(hmm, sequences),
                       [op |-> "log_likelihood", sequences |-> sequences])
    /\ UNCHANGED <<pc, numba_rng>>

\* hmm.decode(sequences)
DecodeBetween ==
    /\ pc = "idle"
    /\ \E sequences \in BetweenCorpora :
       \E junk \in JunkBuffers(hmm.n_hidden_states, Size(sequences[0])) :
           CallReturns(Decode(hmm, sequences, junk),
                       [op |-> "decode", sequences |-> sequences])
    /\ UNCHANGED <<pc, numba_rng>>

NextSample == SampleCall \/ LogLikelihoodCall \/ DecodeBetween

SpecSample == InitSample /\ [][NextSample]_vars

\* What "a, b = x" binds for an array x: the items along the first axis when
\* there are exactly two (each of the shape that is left), and none otherwise.
UnpackedPairShapes(x) ==
    IF x.shape[1] = 2 THEN <<Tail(x.shape), Tail(x.shape)>> ELSE <<>>

\* C1: sample(count, length, seed) returns a pair (observations, hidden
\* states) of two arrays, each of shape (count, length).
C1_SampleReturnsPair ==
    frame.op = "sample" =>
        UnpackedPairShapes(ret) = <<<<frame.n_seq, frame.n_obs>>,
                                    <<frame.n_seq, frame.n_obs>>>>

\* C8: a call of sample with the count, length and seed of the first call
\* returns what the first call returned, whatever was called in between.
C8_SameSeedSameOutput ==
    (frame.op = "sample" /\ ghost.first # <<>>
        /\ SameCall(frame, ghost.first[1].call)) =>
            ret = ghost.first[1].value

\* The first call of sample is repeated after a sample with other arguments, a
\* log_likelihood and a decode, and it returns several sequences that differ.
C8_Witness ==
    /\ frame.op = "sample" /\ ghost.first # <<>>
    /\ SameCall(frame, ghost.first[1].call)
    /\ ghost.between = {"sample", "log_likelihood", "decode"}
    /\ frame.n_seq >= 2 /\ frame.n_obs >= 2
    /\ ret.data[0] # ret.data[1]


(***************************************************************************)
(* HMM.EM: the Baum-Welch loop.                                            *)
(***************************************************************************)
NormalizeBy(a, total) == Tab([i \in DOMAIN a |-> Div(a[i], total)])

\* _utils._normalize of a vector: a / a.sum(); a zero sum divides 0 by 0.
normalize(a) == NormalizeBy(a, Sum(a))

\* _utils._normalize(m, axis=1): every row by its sum.
normalize_rows(m) == Tab([i \in DOMAIN m |-> normalize(m[i])])

\* np.zeros_like of a vector and of a matrix.
ZerosLike(v) == Tab([i \in DOMAIN v |-> Zero])

ZerosLike2(m) == Tab([i \in DOMAIN m |-> ZerosLike(m[i])])

\* log_E[i][j][t] for t < n_obs - 1.
LogE(seq, log_alpha, log_beta, log_A, log_B, log_likelihood) ==
    Tab([i \in DOMAIN log_alpha |-> Tab([j \in DOMAIN log_alpha |->
        Tab([t \in 0..(Size(seq) - 2) |->
            LSub(LAdd(LAdd(LAdd(log_alpha[i][t], log_A[i][j]), log_B[j][seq[t + 1]]),
                      log_beta[j][t + 1]),
                 log_likelihood)])])])

\* log_gamma = log_alpha + log_beta - log_likelihood
LogGamma(log_alpha, log_beta, log_likelihood) ==
    Tab([i \in DOMAIN log_alpha |-> Tab([t \in DOMAIN log_alpha[i] |->
        LSub(LAdd(log_alpha[i][t], log_beta[i][t]), log_likelihood)])])

\* np.sum(np.exp(log_E), axis=-1)
SumExpE(log_E) ==
    Tab([i \in DOMAIN log_E |-> Tab([j \in DOMAIN log_E[i] |-> Sum(ExpVec(log_E[i][j]))])])

\* m with m[:, c] += v
AddColumn(m, c, v) ==
    Tab([i \in DOMAIN m |->
        Tab([k \in DOMAIN m[i] |-> IF k = c THEN Add(m[i][k], v[i]) ELSE m[i][k]])])

\* B_acc after "B_acc[:, seq[t]] += np.exp(log_gamma[:, t])" for t < n.
RECURSIVE BAccUpTo(_, _, _, _)
BAccUpTo(B_acc, seq, log_gamma, n) ==
    IF n = 0 THEN B_acc
    ELSE AddColumn(BAccUpTo(B_acc, seq, log_gamma, n - 1), seq[n - 1],
                   ExpVec(Column(log_gamma, n - 1)))

\* E[:, :, t] summed along its rows, and E[i, :, t].
ERowSums(log_E, t) ==
    Tab([i \in DOMAIN log_E |-> Sum(Tab([j \in DOMAIN log_E[i] |-> Exp(log_E[i][j][t])]))])

\* The sanity checks of one sequence: whether all of them pass.
SanityChecks(log_E, log_gamma, seq) ==
    /\ \A t \in 0..(Size(seq) - 2) : check_array_sums_to_1(ERowSums(log_E, t))
    /\ \A t \in DOMAIN seq : check_array_sums_to_1(ExpVec(Column(log_gamma, t)))
    /\ \A t \in 0..(Size(seq) - 2) : \A i \in DOMAIN log_gamma :
           Exp(log_gamma[i][t]) = ERowSums(log_E, t)[i]

SanityEnabled(obj) == GetAttr(obj, "_enable_sanity_checks", FALSE)

\* The object and the accumulators after the E-step of one sequence, or the
\* AssertionError of a sanity check.
EStepResult(obj, raised, pi_acc, A_acc, B_acc) ==
    [obj |-> obj, raised |-> raised, pi_acc |-> pi_acc, A_acc |-> A_acc, B_acc |-> B_acc]

\* An E-step that re-estimates pi from the accumulator after every sequence.
AccumulateWritingPi(obj, acc, seq, log_E, log_gamma) ==
    EStepResult(SetPi(obj, normalize(VAdd(acc.pi_acc, ExpVec(Column(log_gamma, 0))))),
                SanityEnabled(obj) /\ ~SanityChecks(log_E, log_gamma, seq),
                VAdd(acc.pi_acc, ExpVec(Column(log_gamma, 0))),
                MAdd(acc.A_acc, SumExpE(log_E)),
                BAccUpTo(acc.B_acc, seq, log_gamma, Size(seq)))

\* The sanity checks and the "M STEP accumulators" block of one sequence.
Accumulate(obj, acc, seq, log_E, log_gamma) ==
    EStepResult(obj,
                SanityEnabled(obj) /\ ~SanityChecks(log_E, log_gamma, seq),
                VAdd(acc.pi_acc, ExpVec(Column(log_gamma, 0))),
                MAdd(acc.A_acc, SumExpE(log_E)),
                BAccUpTo(acc.B_acc, seq, log_gamma, Size(seq)))

\* The reads of self._log_A and self._log_B in the loop that fills log_E (no
\* read when the loop has no round).
LoopLogsRead(a, b) == [obj |-> b.obj, log_A |-> a.value, log_B |-> b.value]

LoopLogsAfterA(a) == LoopLogsRead(a, LogB(a.obj))

LoopLogs(obj, seq) ==
    IF Size(seq) > 1 THEN LoopLogsAfterA(LogA(obj))
    ELSE [obj |-> obj, log_A |-> <<>>, log_B |-> <<>>]

Posteriors(log_alpha, log_beta, log_likelihood, logs, acc, seq) ==
    Accumulate(logs.obj, acc, seq,
               LogE(seq, log_alpha, log_beta, logs.log_A, logs.log_B, log_likelihood),
               LogGamma(log_alpha, log_beta, log_likelihood))

EStepAfterBackward(log_alpha, b, acc, seq) ==
    Posteriors(log_alpha, b.log_beta, logsumexp(Column(log_alpha, Size(seq) - 1)),
               LoopLogs(b.obj, seq), acc, seq)

EStepAfterForward(f, acc, seq) ==
    EStepAfterBackward(f.log_alpha, HmmBackward(f.obj, seq), acc, seq)

\* The body of "for seq in sequences".
EStep(obj, acc, seq) == EStepAfterForward(HmmForward(obj, seq), acc, seq)

\* The M step: the three assignments, in their order.
MStep(obj, pi_acc, A_acc, B_acc) ==
    SetB(SetA(SetPi(obj, normalize(pi_acc)), normalize_rows(A_acc)), normalize_rows(B_acc))

\* pi, A and B of an object.
Params(obj) == [pi |-> Pi(obj), A |-> A(obj), B |-> B(obj)]

(***************************************************************************)
(* SpecEM: one call EM(sequences, n_iter) on a model built with its own    *)
(* n_iter, with and without the sanity checks.  The ghost counts the       *)
(* M steps of the call and keeps the parameters each iteration started     *)
(* with.                                                                   *)
(***************************************************************************)
EMModels ==
    {[pi |-> Arr(<<Q(1, 2), Q(1, 2)>>),
      A  |-> Arr(<<Arr(<<Q(1, 2), Q(1, 2)>>), Arr(<<Q(1, 2), Q(1, 2)>>)>>),
      B  |-> Arr(<<Arr(<<One, Zero>>), Arr(<<Q(1, 2), Q(1, 2)>>)>>)],
     [pi |-> Arr(<<Q(1, 2), Q(1, 2)>>),
      A  |-> Arr(<<Arr(<<Q(1, 2), Q(1, 2)>>), Arr(<<Zero, One>>)>>),
      B  |-> Arr(<<Arr(<<Q(1, 2), Q(1, 2)>>), Arr(<<Q(1, 2), Q(1, 2)>>)>>)],
     [pi |-> Arr(<<One, Zero>>),
      A  |-> Arr(<<Arr(<<One, Zero>>), Arr(<<Q(1, 2), Q(1, 2)>>)>>),
      B  |-> Arr(<<Arr(<<Q(1, 2), Q(1, 2)>>), Arr(<<Q(1, 2), Q(1, 2)>>)>>)],
     [pi |-> Arr(<<Q(1, 2), Q(1, 2)>>),
      A  |-> Arr(<<Arr(<<Q(1, 2), Q(1, 2)>>), Arr(<<Q(1, 2), Q(1, 2)>>)>>),
      B  |-> Arr(<<Arr(<<Q(3, 4), Q(1, 4)>>), Arr(<<Q(1, 4), Q(3, 4)>>)>>)]}

\* The rectangular corpora of at most MaxSeqs sequences of length at most
\* MaxLen over the symbols of the object.
EMCorpora(obj) ==
    UNION {[0..(n - 1) -> [0..(T - 1) -> 0..(obj.n_observable_states - 1)]] :
              n \in 1..MaxSeqs, T \in 1..MaxLen}

InitEM ==
    /\ \E m \in EMModels, n_iter \in 0..MaxIter, sanity \in BOOLEAN :
           hmm = IF sanity
                 THEN SetAttr(Construct(m.pi, m.A, m.B, n_iter).obj,
                              "_enable_sanity_checks", TRUE)
                 ELSE Construct(m.pi, m.A, m.B, n_iter).obj
    /\ pc = "idle"
    /\ frame = Idle
    /\ ret = <<>>
    /\ numba_rng = 0
    /\ ghost = [rounds |-> 0, start |-> <<>>]

\* hmm.EM(sequences, n_iter) is called.
EMCall ==
    /\ pc = "idle"
    /\ \E sequences \in EMCorpora(hmm), n_iter \in 0..MaxIter :
           frame' = [op |-> "EM", sequences |-> sequences, n_iter |-> n_iter, round |-> 0]
    /\ pc' = "loop"
    /\ UNCHANGED <<hmm, ret, numba_rng, ghost>>

\* "for _ in range(self.n_iter)" starts a round: the accumulators are zeroed.
EMReset ==
    /\ pc = "loop" /\ frame.round < hmm.n_iter
    /\ frame' = [k |-> 0, pi_acc |-> ZerosLike(Pi(hmm)), A_acc |-> ZerosLike2(A(hmm)),
                 B_acc |-> ZerosLike2(B(hmm))] @@ frame
    /\ ghost' = [ghost EXCEPT !.start = <<Params(hmm)>>]
    /\ pc' = "estep"
    /\ UNCHANGED <<hmm, ret, numba_rng>>

EStepDone(r) ==
    /\ hmm' = r.obj
    /\ IF r.raised
       THEN pc' = "raised" /\ ret' = "AssertionError" /\ UNCHANGED frame
       ELSE /\ frame' = [frame EXCEPT !.k = @ + 1, !.pi_acc = r.pi_acc,
                                      !.A_acc = r.A_acc, !.B_acc = r.B_acc]
            /\ UNCHANGED <<pc, ret>>

\* The E step of the next sequence of the corpus.
EMSequence ==
    /\ pc = "estep" /\ frame.k < Size(frame.sequences)
    /\ EStepDone(EStep(hmm, frame, frame.sequences[frame.k]))
    /\ UNCHANGED <<numba_rng, ghost>>

MStepDone(obj) ==
    /\ hmm' = obj
    /\ IF SanityEnabled(obj) /\ ~check_matrices_conditioning(obj)
       THEN pc' = "raised" /\ ret' = "AssertionError" /\ UNCHANGED frame
       ELSE pc' = "loop" /\ frame' = [frame EXCEPT !.round = @ + 1] /\ UNCHANGED ret

\* The M step, after the last sequence of the corpus.
EMMStep ==
    /\ pc = "estep" /\ frame.k = Size(frame.sequences)
    /\ MStepDone(MStep(hmm, frame.pi_acc, frame.A_acc, frame.B_acc))
    /\ ghost' = [ghost EXCEPT !.rounds = @ + 1]
    /\ UNCHANGED numba_rng

\* range(self.n_iter) is exhausted: EM returns.
EMReturn ==
    /\ pc = "loop" /\ frame.round >= hmm.n_iter
    /\ pc' = "done"
    /\ ret' = "None"
    /\ UNCHANGED <<hmm, frame, numba_rng, ghost>>

NextEM == EMCall \/ EMReset \/ EMSequence \/ EMMStep \/ EMReturn

SpecEM == InitEM /\ [][NextEM]_vars

\* C2: a call EM(corpus, iterations) that has returned has performed exactly
\* `iterations` M steps, the count given to the call.
C2_RoundsAreTheCallsIterations ==
    pc = "done" => ghost.rounds = frame.n_iter

\* Whether pi and every row of A and of B sums to 1.
RowsSumToOne(obj) ==
    /\ Sum(Pi(obj)) = One
    /\ \A s \in DOMAIN A(obj) : Sum(A(obj)[s]) = One
    /\ \A s \in DOMAIN B(obj) : Sum(B(obj)[s]) = One

\* C5: whenever the parameters are at rest after the M step of a round of EM,
\* pi and every row of A and of B sums to 1.
C5_RowsSumToOneAfterMStep ==
    (frame.op = "EM" /\ ghost.rounds >= 1 /\ pc \in {"loop", "done", "raised"}) =>
        RowsSumToOne(hmm)

\* The accumulators after the first n sequences of the corpus, every
\* contribution computed from the parameters p (an object that holds nothing
\* but them, so every log is computed from p).
RECURSIVE ExpectedUpTo(_, _, _)
ExpectedUpTo(p, sequences, n) ==
    IF n = 0
    THEN [pi_acc |-> ZerosLike(p.pi), A_acc |-> ZerosLike2(p.A), B_acc |-> ZerosLike2(p.B)]
    ELSE EStep([init_probas |-> p.pi, transitions |-> p.A, emissions |-> p.B],
               ExpectedUpTo(p, sequences, n - 1), sequences[n - 1])

SameAccumulators(x, y) ==
    x.pi_acc = y.pi_acc /\ x.A_acc = y.A_acc /\ x.B_acc = y.B_acc

\* During the E step the parameters are those the iteration started with, and
\* the accumulators hold exactly the contributions of the sequences done so
\* far, each computed from those parameters (nothing when none is done).
EStepReadsStartParameters ==
    pc = "estep" =>
        /\ Params(hmm) = ghost.start[1]
        /\ SameAccumulators(frame, ExpectedUpTo(ghost.start[1], frame.sequences, frame.k))

\* The parameters change only in the step that follows the last sequence of
\* the corpus, and that step replaces pi, A and B by the normalised
\* accumulators, all three.
ParametersReplacedTogether ==
    Params(hmm') # Params(hmm) =>
        /\ pc = "estep" /\ frame.k = Size(frame.sequences)
        /\ Pi(hmm') = normalize(frame.pi_acc)
        /\ A(hmm') = normalize_rows(frame.A_acc)
        /\ B(hmm') = normalize_rows(frame.B_acc)

\* C10: within an iteration of EM the E step of every sequence reads the
\* parameters in place when the iteration started, the accumulators start at
\* zero, and pi, A and B are replaced together, only after the last sequence.
C10_EStepThenMStep ==
    []EStepReadsStartParameters /\ [][ParametersReplacedTogether]_vars

\* The second round of a call on two sequences of two observations is about to
\* run its M step, on parameters the first round changed, all of them finite.
C10_Witness ==
    /\ pc = "estep" /\ ghost.rounds = 1
    /\ Size(frame.sequences) = 2 /\ frame.k = 2 /\ Size(frame.sequences[0]) = 2
    /\ frame.sequences[0] # frame.sequences[1]
    /\ RowsSumToOne(hmm)
    /\ \E m \in EMModels : Params(hmm) # m /\ Pi(hmm) # m.pi /\ A(hmm) # m.A
    /\ Sum(frame.pi_acc) = <<2, 1>>

====
